---- MODULE Spec2Model ----
(***************************************************************************)
(* Model of devops-pipeline-cli: the run orchestration of                  *)
(* pipeline_cli.pipeline.run_pipeline (artifact validation, approval gate, *)
(* step loop with fail/skip propagation, result assembly) and of the CLI   *)
(* command pipeline_cli.cli.run that validates its options and calls it.   *)
(*                                                                         *)
(* Strings that the code inspects character by character (the approver's   *)
(* answer, the interactive selection) are sequences of one-character       *)
(* strings.  A timestamp is the reading of the wall clock at the moment    *)
(* utc_now_iso() is called; the clock is an environment variable that      *)
(* never goes backwards and may or may not move between two readings.      *)
(***************************************************************************)
EXTENDS Integers, Sequences, FiniteSets, TLC

\* ------------------------------------------------------------------ bounds
\* largest reading of the clock
MaxClock == 1
\* largest number of prompts of the interactive artifact selection
MaxPrompts == 2

\* ------------------------------------------------------- program constants
\* pipeline.py:15
PIPELINE_STEPS == <<"build", "test", "package", "deploy">>

\* artifacts.py:12-16, the keys of DEFAULT_ARTIFACTS in order
DEFAULT_ARTIFACTS == <<"api-service@1.0.0", "web-frontend@2.3.1", "worker@0.9.5">>

\* Python's None for the Optional[str] parameters
None == "<None>"

\* ------------------------------------------------------------------ inputs
RunIds == {"0a1b2c3d4e5f"}
\* a registry key, a key outside it, and one that differs from a key in case only
ArtifactInputs == {"api-service@1.0.0", "unknown@0.0.0", "API-SERVICE@1.0.0"}
FailStepInputs == {None, "", "build", "test", "package", "deploy", "lint"}
SimulateInputs == {-1, 0, 1}
\* what input() may return to require_approval
AnswerInputs ==
  { <<"y">>, <<" ", "Y", "E", "S", " ">>, <<"o">>, <<"O", "u", "i">>,
    <<"n">>, <<>>, <<" ">>, <<"y", "e">>, <<"n", "o">> }
\* what console.input() may return to the interactive selection
ChoiceInputs ==
  { <<"1">>, <<" ", "3", " ">>, <<"0">>, <<"4">>, <<"0", "2">>, <<"x">>, <<>>, <<"-", "1">>, <<"sup2">> }

\* ------------------------------------------------------------------- state
VARIABLES
  pc,                       \* position of the single thread of control
  caller,                   \* "api": run_pipeline called directly; "cli": through cli.run
  run_id, artifact, require_manual_approval, auto_yes, fail_step, simulate_seconds,
  json_out,                 \* cli.run option --json/--no-json
  started_at, approved, step_results, overall_status,
  idx,                      \* position of the for loop in PIPELINE_STEPS (1-based)
  step_start,               \* local step_start of the current iteration
  remaining,                \* the slice still to be walked by the inner for loop
  result,                   \* the RunResults returned to the caller so far
  exc,                      \* name of the exception raised, None if none
  exit_code,                \* code of typer.Exit, -1 if none
  clock,                    \* environment: the wall clock
  stdin_read,               \* environment: the answers input() has returned
  sleeps,                   \* environment: the arguments of the time.sleep calls
  log,                      \* the records handed to the loggers
  prompts,                  \* number of console.input calls of the selection
  files,                    \* files created under log_dir: <<run_id, extension>>
  handlers                  \* handlers of the root logger

vars == <<pc, caller, run_id, artifact, require_manual_approval, auto_yes, fail_step,
          simulate_seconds, json_out, started_at, approved, step_results, overall_status,
          idx, step_start, remaining, result, exc, exit_code, clock, stdin_read, sleeps,
          log, prompts, files, handlers>>

args == <<run_id, artifact, require_manual_approval, auto_yes, fail_step, simulate_seconds>>
locals == <<started_at, approved, step_results, overall_status, idx, step_start, remaining>>
env == <<clock, stdin_read, sleeps, prompts, files, handlers>>

\* ----------------------------------------------------------------- helpers
Max(a, b) == IF a >= b THEN a ELSE b

\* Python truthiness of an Optional[str]
Truthy(s) == s # None /\ s # ""

\* x in seq
Contains(seq, x) == \E i \in 1..Len(seq) : seq[i] = x

\* list.index(x): the first position of x, 0-based as in Python
Index(seq, x) == (CHOOSE i \in 1..Len(seq) : seq[i] = x /\ \A j \in 1..(i - 1) : seq[j] # x) - 1

\* seq[k:] for a 0-based k
SliceFrom(seq, k) == SubSeq(seq, k + 1, Len(seq))

\* models.utc_now_iso: the reading of the clock
utc_now_iso == clock

\* ---------------------------------------------------------------- registry
\* artifacts.artifact_exists: exact match against the registry keys
artifact_exists_always(key) == TRUE
artifact_exists(key) == \E i \in 1..Len(DEFAULT_ARTIFACTS) : DEFAULT_ARTIFACTS[i] = key

\* ----------------------------------------------------------- approval gate
IsSpace(c) == c = " "

Lower(c) ==
  CASE c = "Y" -> "y" [] c = "E" -> "e" [] c = "S" -> "s" [] c = "O" -> "o"
    [] c = "U" -> "u" [] c = "I" -> "i" [] c = "N" -> "n" [] OTHER -> c

RECURSIVE LStrip(_)
LStrip(s) == IF s # <<>> /\ IsSpace(Head(s)) THEN LStrip(Tail(s)) ELSE s

RECURSIVE RStrip(_)
RStrip(s) == IF s # <<>> /\ IsSpace(s[Len(s)]) THEN RStrip(SubSeq(s, 1, Len(s) - 1)) ELSE s

\* str.strip()
Strip(s) == RStrip(LStrip(s))

\* str.lower()
ToLower(s) == [i \in 1..Len(s) |-> Lower(s[i])]

\* pipeline.py:21-22, the value require_approval returns for what input() gave
answer_approves_no_strip(ans) ==
  ToLower(ans) \in {<<"y">>, <<"y", "e", "s">>, <<"o">>, <<"o", "u", "i">>}
answer_approves_default_yes(ans) == ToLower(Strip(ans)) \notin {<<"n">>, <<"n", "o">>}
answer_approves(ans) ==
  ToLower(Strip(ans)) \in {<<"y">>, <<"y", "e", "s">>, <<"o">>, <<"o", "u", "i">>}

\* pipeline.py:19, require_approval reads input only when auto_yes is false
reads_input_always(auto) == TRUE
reads_input(auto) == ~auto

\* ----------------------------------------------------------- step executor
\* pipeline.py:57, the condition under which the current step fails
step_fails_never(step, fail) == FALSE
step_fails_first(step, fail) == Truthy(fail)
step_fails(step, fail) == Truthy(fail) /\ step = fail

\* pipeline.py:73, PIPELINE_STEPS[PIPELINE_STEPS.index(step) + 1 :]
steps_after_inclusive(step) == SliceFrom(PIPELINE_STEPS, Index(PIPELINE_STEPS, step))
steps_after(step) == SliceFrom(PIPELINE_STEPS, Index(PIPELINE_STEPS, step) + 1)

\* models.StepResult as built at pipeline.py:62-68, 76-82 and 88-94
StepResult(name, status, started, finished, message) ==
  [name |-> name, status |-> status, started_at |-> started, finished_at |-> finished,
   message |-> message]

failed_result_timed(step, start, end) == StepResult(step, "failed", start, end, <<"Simulated failure at step", step, end>>)
failed_result_as_success(step, start, end) == StepResult(step, "success", start, end, <<"Simulated failure at step", step>>)
failed_result(step, start, end) == StepResult(step, "failed", start, end, <<"Simulated failure at step", step>>)

skipped_result_epoch(name, now) == StepResult(name, "skipped", 0, 0, <<"Skipped due to previous failure.">>)
skipped_result(name, now) == StepResult(name, "skipped", now, now, <<"Skipped due to previous failure.">>)

success_result_swapped(step, start, end) == StepResult(step, "success", end, start, <<"OK">>)
success_result(step, start, end) == StepResult(step, "success", start, end, <<"OK">>)

\* models.RunResult as built at pipeline.py:99-107
RunResult_always_success(rid, art, appr, status, started, finished, steps) ==
  [run_id |-> rid, artifact |-> art, approved |-> appr, status |-> "success",
   started_at |-> started, finished_at |-> finished, steps |-> steps]
RunResult(rid, art, appr, status, started, finished, steps) ==
  [run_id |-> rid, artifact |-> art, approved |-> appr, status |-> status,
   started_at |-> started, finished_at |-> finished, steps |-> steps]

\* a record handed to a logger: level, message, argument
Rec(level, msg, arg) == <<level, msg, arg>>

\* --------------------------------------------------------------------- cli
\* cli.py:76, the fail_step values the command rejects
bad_fail_step_truthy(fs) == Truthy(fs) /\ ~Contains(PIPELINE_STEPS, fs)
bad_fail_step(fs) == fs # None /\ ~Contains(PIPELINE_STEPS, fs)

Digits == {"0", "1", "2", "3", "4", "5", "6", "7", "8", "9"}
\* characters str.isdigit accepts although int() does not parse them
OtherDigits == {"sup2"}

\* str.isdigit(): non-empty and every character a digit
IsDigit(s) == s # <<>> /\ \A i \in 1..Len(s) : s[i] \in Digits \cup OtherDigits

DigitVal(c) ==
  CASE c = "0" -> 0 [] c = "1" -> 1 [] c = "2" -> 2 [] c = "3" -> 3 [] c = "4" -> 4
    [] c = "5" -> 5 [] c = "6" -> 6 [] c = "7" -> 7 [] c = "8" -> 8 [] c = "9" -> 9

\* int(s) raises ValueError on a digit character outside 0-9
IntRaises(s) == \E i \in 1..Len(s) : s[i] \in OtherDigits

RECURSIVE ParseInt(_)
ParseInt(s) == IF s = <<>> THEN 0 ELSE 10 * ParseInt(SubSeq(s, 1, Len(s) - 1)) + DigitVal(s[Len(s)])

\* logging_conf.py:36-40 and 43-47: the two handlers a call creates; run_id is
\* the one its RunIdFilter stamps on records, path the file a FileHandler opens
new_handlers(rid) ==
  << [kind |-> "console", run_id |-> rid, path |-> <<>>],
     [kind |-> "file", run_id |-> rid, path |-> <<rid, "log">>] >>

\* logging_conf.py:21-22: every handler of the root logger is removed
remove_all(old) == SubSeq(old, 1, 0)

\* logging_conf.setup_logging: the handlers it leaves on the root logger
setup_handlers_keep(old, rid) == old \o new_handlers(rid)
setup_handlers(old, rid) == remove_all(old) \o new_handlers(rid)

\* -------------------------------------------------------------------- Init
InitProgram ==
  /\ pc = "idle"
  /\ caller = "none"
  /\ run_id = None
  /\ artifact = None
  /\ require_manual_approval = FALSE
  /\ auto_yes = FALSE
  /\ fail_step = None
  /\ simulate_seconds = 0
  /\ json_out = FALSE
  /\ started_at = 0
  /\ approved = FALSE
  /\ step_results = <<>>
  /\ overall_status = None
  /\ idx = 0
  /\ step_start = 0
  /\ remaining = <<>>
  /\ result = <<>>
  /\ exc = None
  /\ exit_code = -1
  /\ clock = 0
  /\ stdin_read = <<>>
  /\ sleeps = <<>>
  /\ log = <<>>
  /\ prompts = 0
  /\ files = {}

\* the root logger of a fresh interpreter has no handler
Init == InitProgram /\ handlers = <<>>

\* an exception leaves run_pipeline: to the except clauses of cli.run, or to
\* the direct caller
Raised == IF caller = "cli" THEN "cli_except" ELSE "raised"

\* ------------------------------------------------------------- environment
\* the positions of run_pipeline from which utc_now_iso() is still to be called
ClockRead == {"run_pipeline", "validate", "gate", "input", "gate_check", "steps", "loop",
              "work", "outcome", "skip"}

\* the wall clock moves on; its reading matters only where it is still to be read
Tick ==
  /\ clock < MaxClock
  /\ pc \in ClockRead
  /\ clock' = clock + 1
  /\ UNCHANGED <<pc, caller, args, json_out, locals, result, exc, exit_code,
                 stdin_read, sleeps, log, prompts, files, handlers>>

\* ------------------------------------------------------------ run_pipeline
\* a direct call of run_pipeline with arbitrary arguments
call_run_pipeline ==
  /\ pc = "idle"
  /\ \E rid \in RunIds, art \in ArtifactInputs, req \in BOOLEAN, yes \in BOOLEAN,
        fs \in FailStepInputs, sim \in SimulateInputs :
       /\ run_id' = rid
       /\ artifact' = art
       /\ require_manual_approval' = req
       /\ auto_yes' = yes
       /\ fail_step' = fs
       /\ simulate_seconds' = sim
  /\ caller' = "api"
  /\ pc' = "run_pipeline"
  /\ UNCHANGED <<json_out, locals, result, exc, exit_code, env, log>>

\* pipeline.py:33-34
run_pipeline_enter ==
  /\ pc = "run_pipeline"
  /\ started_at' = utc_now_iso
  /\ log' = Append(log, Rec("INFO", "Run started. artifact=", artifact))
  /\ pc' = "validate"
  /\ UNCHANGED <<caller, args, json_out, approved, step_results, overall_status, idx,
                 step_start, remaining, result, exc, exit_code, env>>

\* pipeline.py:40, the value approved has when no approval is asked for
approved_default_false == FALSE
approved_default == TRUE

\* pipeline.py:36-40
validate_artifact ==
  /\ pc = "validate"
  /\ IF ~artifact_exists(artifact)
       THEN /\ log' = Append(log, Rec("ERROR", "Unknown artifact:", artifact))
            /\ exc' = "ArtifactNotFoundError"
            /\ pc' = Raised
            /\ UNCHANGED approved
       ELSE /\ approved' = approved_default
            /\ pc' = "gate"
            /\ UNCHANGED <<log, exc>>
  /\ UNCHANGED <<caller, args, json_out, started_at, step_results, overall_status, idx,
                 step_start, remaining, result, exit_code, env>>

\* pipeline.py:41-43 and 18-20: the gate, up to the call of input()
approval_gate ==
  /\ pc = "gate"
  /\ IF require_manual_approval
       THEN /\ log' = Append(log, Rec("INFO", "Waiting for manual approval...", None))
            /\ IF reads_input(auto_yes)
                 THEN pc' = "input" /\ UNCHANGED approved
                 ELSE pc' = "gate_check" /\ approved' = TRUE
       ELSE /\ pc' = "steps"
            /\ UNCHANGED <<log, approved>>
  /\ UNCHANGED <<caller, args, json_out, started_at, step_results, overall_status, idx,
                 step_start, remaining, result, exc, exit_code, env>>

\* pipeline.py:21-22: input() returns an answer, or raises EOFError on a closed stdin
require_approval_input ==
  /\ pc = "input"
  /\ \/ \E ans \in AnswerInputs :
          /\ stdin_read' = Append(stdin_read, ans)
          /\ approved' = answer_approves(ans)
          /\ pc' = "gate_check"
          /\ UNCHANGED exc
     \/ /\ exc' = "EOFError"
        /\ pc' = Raised
        /\ UNCHANGED <<stdin_read, approved>>
  /\ UNCHANGED <<caller, args, json_out, started_at, step_results, overall_status, idx,
                 step_start, remaining, result, exit_code, clock, sleeps, log, prompts,
                 files, handlers>>

\* pipeline.py:44-46
approval_check ==
  /\ pc = "gate_check"
  /\ IF ~approved
       THEN /\ log' = Append(log, Rec("WARNING", "Approval rejected.", None))
            /\ exc' = "ApprovalRejectedError"
            /\ pc' = Raised
       ELSE /\ pc' = "steps"
            /\ UNCHANGED <<log, exc>>
  /\ UNCHANGED <<caller, args, json_out, locals, result, exit_code, env>>

\* pipeline.py:48-49
init_steps ==
  /\ pc = "steps"
  /\ step_results' = <<>>
  /\ overall_status' = "success"
  /\ idx' = 1
  /\ pc' = "loop"
  /\ UNCHANGED <<caller, args, json_out, started_at, approved, step_start, remaining,
                 result, exc, exit_code, env, log>>

\* pipeline.py:51-53: the next iteration of the for loop begins
step_begin ==
  /\ pc = "loop"
  /\ idx <= Len(PIPELINE_STEPS)
  /\ step_start' = utc_now_iso
  /\ log' = Append(log, Rec("INFO", "Step started:", PIPELINE_STEPS[idx]))
  /\ pc' = "work"
  /\ UNCHANGED <<caller, args, json_out, started_at, approved, step_results,
                 overall_status, idx, remaining, result, exc, exit_code, env>>

\* pipeline.py:55, the argument handed to time.sleep
sleep_arg_raw(seconds) == seconds
sleep_arg(seconds) == Max(0, seconds)

\* pipeline.py:55; time.sleep raises ValueError on a negative argument
step_sleep ==
  /\ pc = "work"
  /\ IF sleep_arg(simulate_seconds) < 0
       THEN /\ exc' = "ValueError"
            /\ pc' = Raised
            /\ UNCHANGED sleeps
       ELSE /\ sleeps' = Append(sleeps, sleep_arg(simulate_seconds))
            /\ pc' = "outcome"
            /\ UNCHANGED exc
  /\ UNCHANGED <<caller, args, json_out, locals, result, exit_code, clock,
                 stdin_read, log, prompts, files, handlers>>

\* pipeline.py:57-70 and 73 (the slice the inner loop will walk)
step_fail ==
  /\ pc = "outcome"
  /\ step_fails(PIPELINE_STEPS[idx], fail_step)
  /\ log' = Append(log, Rec("ERROR", "Simulated failure at step", PIPELINE_STEPS[idx]))
  /\ step_results' = Append(step_results, failed_result(PIPELINE_STEPS[idx], step_start, utc_now_iso))
  /\ overall_status' = "failed"
  /\ remaining' = steps_after(PIPELINE_STEPS[idx])
  /\ pc' = "skip"
  /\ UNCHANGED <<caller, args, json_out, started_at, approved, idx, step_start, result,
                 exc, exit_code, env>>

\* pipeline.py:73-83: one iteration of the inner loop
skip_remaining ==
  /\ pc = "skip"
  /\ remaining # <<>>
  /\ step_results' = Append(step_results, skipped_result(Head(remaining), utc_now_iso))
  /\ remaining' = Tail(remaining)
  /\ UNCHANGED <<pc, caller, args, json_out, started_at, approved, overall_status, idx,
                 step_start, result, exc, exit_code, env, log>>

\* pipeline.py:57 (condition false) and 86-96
step_succeed ==
  /\ pc = "outcome"
  /\ ~step_fails(PIPELINE_STEPS[idx], fail_step)
  /\ step_results' = Append(step_results, success_result(PIPELINE_STEPS[idx], step_start, utc_now_iso))
  /\ log' = Append(log, Rec("INFO", "Step finished: (success)", PIPELINE_STEPS[idx]))
  /\ idx' = idx + 1
  /\ pc' = "loop"
  /\ UNCHANGED <<caller, args, json_out, started_at, approved, overall_status,
                 step_start, remaining, result, exc, exit_code, env>>

\* pipeline.py:98-109: after the loop ended (exhausted, or by the break at 84)
run_pipeline_return ==
  /\ \/ pc = "loop" /\ idx > Len(PIPELINE_STEPS)
     \/ pc = "skip" /\ remaining = <<>>
  /\ result' = Append(result, RunResult(run_id, artifact, approved, overall_status,
                                        started_at, utc_now_iso, step_results))
  /\ log' = Append(log, Rec("INFO", "Run finished. status=", overall_status))
  /\ pc' = IF caller = "cli" THEN "cli_json" ELSE "returned"
  /\ UNCHANGED <<caller, args, json_out, locals, exc, exit_code, env>>

\* ----------------------------------------------------------------- cli.run
\* the command is invoked with its options; artifact None: no --artifact given
run ==
  /\ pc = "idle"
  /\ \E art \in ArtifactInputs \cup {None}, req \in BOOLEAN, yes \in BOOLEAN,
        fs \in FailStepInputs, js \in BOOLEAN, sim \in SimulateInputs :
       /\ artifact' = art
       /\ require_manual_approval' = req
       /\ auto_yes' = yes
       /\ fail_step' = fs
       /\ json_out' = js
       /\ simulate_seconds' = sim
  /\ caller' = "cli"
  /\ pc' = "cli_artifact"
  /\ UNCHANGED <<run_id, locals, result, exc, exit_code, env, log>>

\* cli.py:70-74
cli_check_artifact ==
  /\ pc = "cli_artifact"
  /\ IF artifact = None
       THEN pc' = "pick" /\ UNCHANGED exc
       ELSE IF ~artifact_exists(artifact)
              THEN pc' = "raised" /\ exc' = "BadParameter"
              ELSE pc' = "cli_fail_step" /\ UNCHANGED exc
  /\ UNCHANGED <<caller, args, json_out, locals, result, exit_code, env, log>>

\* cli.py:35-45: one iteration of the selection loop
pick_artifact_interactive ==
  /\ pc = "pick"
  /\ prompts < MaxPrompts
  /\ prompts' = prompts + 1
  /\ \E input \in ChoiceInputs :
       LET choice == Strip(input) IN
         IF ~IsDigit(choice)
           THEN UNCHANGED <<pc, artifact, exc>>
           ELSE IF IntRaises(choice)
             THEN pc' = "raised" /\ exc' = "ValueError" /\ UNCHANGED artifact
             ELSE IF 1 <= ParseInt(choice) /\ ParseInt(choice) <= Len(DEFAULT_ARTIFACTS)
               THEN /\ artifact' = DEFAULT_ARTIFACTS[ParseInt(choice)]
                    /\ pc' = "cli_fail_step"
                    /\ UNCHANGED exc
               ELSE UNCHANGED <<pc, artifact, exc>>
  /\ UNCHANGED <<caller, run_id, require_manual_approval, auto_yes, fail_step,
                 simulate_seconds, json_out, locals, result, exit_code, clock, stdin_read,
                 sleeps, log, files, handlers>>

\* cli.py:76-77
cli_check_fail_step ==
  /\ pc = "cli_fail_step"
  /\ IF bad_fail_step(fail_step)
       THEN pc' = "raised" /\ exc' = "BadParameter"
       ELSE pc' = "cli_setup" /\ UNCHANGED exc
  /\ UNCHANGED <<caller, args, json_out, locals, result, exit_code, env, log>>

\* cli.py:79-81 and logging_conf.setup_logging
cli_setup ==
  /\ pc = "cli_setup"
  /\ \E rid \in RunIds :
       /\ run_id' = rid
       /\ handlers' = setup_handlers(handlers, rid)
       /\ files' = files \cup {<<rid, "log">>}
  /\ log' = Append(log, Rec("DEBUG", "Logging initialized at", None))
  /\ pc' = "run_pipeline"
  /\ UNCHANGED <<caller, artifact, require_manual_approval, auto_yes, fail_step,
                 simulate_seconds, json_out, locals, result, exc, exit_code, clock,
                 stdin_read, sleeps, prompts>>

\* cli.py:94 and pipeline.write_json_result: <log_dir>/<run_id>.json is written
write_json_result_log_path(fs, rid) == fs \cup {<<rid, "log">>}
write_json_result(fs, rid) == fs \cup {<<rid, "json">>}

\* cli.py:93-95 and pipeline.write_json_result
cli_write_json ==
  /\ pc = "cli_json"
  /\ files' = IF json_out THEN write_json_result(files, result[1].run_id) ELSE files
  /\ pc' = "cli_exit"
  /\ UNCHANGED <<caller, args, json_out, locals, result, exc, exit_code, clock,
                 stdin_read, sleeps, log, prompts, handlers>>

\* cli.py:97-110: the summary is printed and typer.Exit is raised inside the try
cli_exit ==
  /\ pc = "cli_exit"
  /\ exit_code' = IF result[1].status = "success" THEN 0 ELSE 1
  /\ exc' = "Exit"
  /\ pc' = "cli_except"
  /\ UNCHANGED <<caller, args, json_out, locals, result, env, log>>

\* errors.py: the subclasses of PipelineError
PipelineErrors == {"PipelineError", "ArtifactNotFoundError", "ApprovalRejectedError"}

\* cli.py:112-130: the first except clause that matches the exception
except_clause_no_exit(e) ==
  CASE e = "ApprovalRejectedError" -> "rejected"
    [] e = "ArtifactNotFoundError" -> "artifact"
    [] e \in {"PipelineError", "ArtifactNotFoundError", "ApprovalRejectedError"} -> "pipeline"
    [] OTHER -> "unexpected"
except_clause(e) ==
  CASE e = "ApprovalRejectedError" -> "rejected"
    [] e = "ArtifactNotFoundError" -> "artifact"
    [] e \in PipelineErrors -> "pipeline"
    [] e = "Exit" -> "reraise"
    [] OTHER -> "unexpected"

\* cli.py:112-133
cli_except ==
  /\ pc = "cli_except"
  /\ IF except_clause(exc) = "reraise"
       THEN UNCHANGED <<exit_code, log>>
       ELSE /\ exit_code' = 1
            /\ log' = Append(log,
                 CASE except_clause(exc) = "rejected" -> Rec("WARNING", "Run rejected by user.", None)
                   [] except_clause(exc) = "artifact" -> Rec("ERROR", "Artifact error:", exc)
                   [] except_clause(exc) = "pipeline" -> Rec("ERROR", "Pipeline error:", exc)
                   [] OTHER -> Rec("ERROR", "Unexpected error", exc))
  /\ pc' = "exited"
  /\ UNCHANGED <<caller, args, json_out, locals, result, exc, env>>

\* ----------------------------------------------------------- specification
Next ==
  \/ Tick
  \/ call_run_pipeline
  \/ run_pipeline_enter
  \/ validate_artifact
  \/ approval_gate
  \/ require_approval_input
  \/ approval_check
  \/ init_steps
  \/ step_begin
  \/ step_sleep
  \/ step_fail
  \/ skip_remaining
  \/ step_succeed
  \/ run_pipeline_return
  \/ run
  \/ cli_check_artifact
  \/ pick_artifact_interactive
  \/ cli_check_fail_step
  \/ cli_setup
  \/ cli_write_json
  \/ cli_exit
  \/ cli_except

Spec == Init /\ [][Next]_vars

\* the steps of run_pipeline itself
RunStep ==
  \/ run_pipeline_enter \/ validate_artifact \/ approval_gate \/ require_approval_input
  \/ approval_check \/ init_steps \/ step_begin \/ step_sleep \/ step_fail
  \/ skip_remaining \/ step_succeed \/ run_pipeline_return

\* the caller that got a RunResult calls run_pipeline a second time with the
\* same run_id, artifact, approval arguments and fail_step; the new call has a
\* fresh frame, the environment goes on from where it is
call_again ==
  /\ pc = "returned"
  /\ Len(result) = 1
  /\ \E sim \in SimulateInputs : simulate_seconds' = sim
  /\ started_at' = 0
  /\ approved' = FALSE
  /\ step_results' = <<>>
  /\ overall_status' = None
  /\ idx' = 0
  /\ step_start' = 0
  /\ remaining' = <<>>
  /\ pc' = "run_pipeline"
  /\ UNCHANGED <<caller, run_id, artifact, require_manual_approval, auto_yes, fail_step,
                 json_out, result, exc, exit_code, env, log>>

\* run_pipeline called directly, then once more with identical inputs
NextTwice ==
  \/ Tick
  \/ call_run_pipeline
  \/ RunStep
  \/ call_again

SpecTwice == Init /\ [][NextTwice]_vars

\* run ids of repeated calls of setup_logging
LogRunIds == {"0a1b2c3d4e5f", "111111111111", "222222222222", "333333333333",
              "444444444444", "555555555555"}

\* handlers the host (a test runner, another library) put on the root logger
PreexistingHandlers ==
  { <<>>,
    << [kind |-> "host", run_id |-> None, path |-> <<>>] >>,
    << [kind |-> "host", run_id |-> None, path |-> <<>>],
       [kind |-> "file", run_id |-> None, path |-> <<None, "log">>] >> }

InitLogging == InitProgram /\ handlers \in PreexistingHandlers

\* logging_conf.py:7-49: one call of setup_logging(run_id, log_dir)
setup_logging ==
  /\ pc = "idle"
  /\ \E rid \in LogRunIds :
       /\ run_id' = rid
       /\ handlers' = setup_handlers(handlers, rid)
       /\ files' = files \cup {<<rid, "log">>}
  /\ UNCHANGED <<pc, caller, artifact, require_manual_approval, auto_yes, fail_step,
                 simulate_seconds, json_out, locals, result, exc, exit_code, clock,
                 stdin_read, sleeps, log, prompts>>

\* setup_logging called again and again, with any run ids
NextLogging == setup_logging

SpecLogging == InitLogging /\ [][NextLogging]_vars

\* ------------------------------------------------------------------ claims
\* vocabulary of the claims, stated on what the run leaves behind
RegistryKeys == {DEFAULT_ARTIFACTS[i] : i \in 1..Len(DEFAULT_ARTIFACTS)}
StepNames == {PIPELINE_STEPS[i] : i \in 1..Len(PIPELINE_STEPS)}
\* run_pipeline has been called (its first statement logs "Run started")
Entered == \E i \in 1..Len(log) : log[i][2] = "Run started. artifact="
\* the log positions at which a step was started
StartedAt == {i \in 1..Len(log) : log[i][2] = "Step started:"}
NoStepStarted == StartedAt = {}
IsStepStarted(rec) == rec[2] = "Step started:"
Returned == result # <<>>
Statuses(steps) == [i \in 1..Len(steps) |-> steps[i].status]
Names(steps) == [i \in 1..Len(steps) |-> steps[i].name]
\* answers of the approver that grant, and answers that deny
GrantingAnswers == {<<"y">>, <<" ", "Y", "E", "S", " ">>, <<"o">>, <<"O", "u", "i">>}
DenyingAnswers == {<<"n">>, <<>>, <<" ">>, <<"y", "e">>, <<"n", "o">>}
Denied == stdin_read # <<>> /\ stdin_read[Len(stdin_read)] \in DenyingAnswers
Granted ==
  \/ ~require_manual_approval
  \/ auto_yes
  \/ stdin_read # <<>> /\ stdin_read[Len(stdin_read)] \in GrantingAnswers

\* C1: with fail_step a member of the step sequence, a returned run holds one
\* result per step: success before fail_step, failed at it, skipped after it.
C1_FailSkipPropagation ==
  (Returned /\ fail_step \in StepNames) =>
    LET steps == result[1].steps
        f == CHOOSE i \in 1..Len(PIPELINE_STEPS) : PIPELINE_STEPS[i] = fail_step
    IN /\ Len(steps) = Len(PIPELINE_STEPS)
       /\ \A i \in 1..Len(steps) :
            /\ steps[i].name = PIPELINE_STEPS[i]
            /\ i < f => steps[i].status = "success"
            /\ i = f => steps[i].status = "failed"
            /\ i > f => steps[i].status = "skipped"

\* C1 witness: scenario B, fail_step = test
C1_Witness ==
  /\ Returned
  /\ fail_step = "test"
  /\ Statuses(result[1].steps) = <<"success", "failed", "skipped", "skipped">>
  /\ result[1].status = "failed"

\* C2: with fail_step None, empty or not a member of the step sequence, every
\* step result of a returned run is success and so is the overall status.
C2_NoFailStepAllSuccess ==
  (Returned /\ (fail_step = None \/ fail_step = "" \/ fail_step \notin StepNames)) =>
    /\ \A i \in 1..Len(result[1].steps) : result[1].steps[i].status = "success"
    /\ Len(result[1].steps) = Len(PIPELINE_STEPS)
    /\ result[1].status = "success"

\* C2 witness: a fail_step that names no step
C2_Witness ==
  /\ Returned
  /\ fail_step = "lint"
  /\ Statuses(result[1].steps) = <<"success", "success", "success", "success">>
  /\ result[1].status = "success"

\* C3: for an artifact key outside the registry the approver is never
\* consulted, no step is started or slept for, no StepResult and no RunResult
\* exist, and run_pipeline, once past its validation, has raised
\* ArtifactNotFoundError, whatever the other arguments are.
C3_UnknownArtifactRaises ==
  (pc # "idle" /\ artifact \notin RegistryKeys) =>
    /\ stdin_read = <<>>
    /\ NoStepStarted
    /\ sleeps = <<>>
    /\ step_results = <<>>
    /\ ~Returned
    /\ Entered => \/ pc \in {"validate"} /\ exc = None
                  \/ pc = "raised" /\ exc = "ArtifactNotFoundError"

\* C3 witness: unknown artifact, approval required and not automatic, fail_step set
C3_Witness ==
  /\ pc = "raised"
  /\ exc = "ArtifactNotFoundError"
  /\ artifact = "unknown@0.0.0"
  /\ require_manual_approval /\ ~auto_yes
  /\ fail_step = "build"

\* C4: when approval is required, not automatic, and the approver denies,
\* ApprovalRejectedError is raised before step execution: no step started, no
\* sleep, no StepResult, no RunResult, whatever fail_step is.
C4_DeniedApprovalRaises ==
  (require_manual_approval /\ ~auto_yes /\ Denied) =>
    /\ NoStepStarted
    /\ sleeps = <<>>
    /\ step_results = <<>>
    /\ ~Returned
    /\ \/ pc = "gate_check" /\ exc = None
       \/ pc \in {"raised", "cli_except", "exited"} /\ exc = "ApprovalRejectedError"

\* C4 witness: scenario D with a fail_step, the empty answer
C4_Witness ==
  /\ pc = "raised"
  /\ exc = "ApprovalRejectedError"
  /\ stdin_read = << <<>> >>
  /\ fail_step = "build"
  /\ ~approved

\* C5: with auto_yes and require_manual_approval both true input() is never
\* called, and for a registry artifact run_pipeline raises nothing, can always
\* take its next step until it returns, and returns approved = true.
C5_AutoYesNeverPrompts ==
  (Entered /\ require_manual_approval /\ auto_yes) =>
    /\ stdin_read = <<>>
    /\ pc # "input"
    /\ artifact \in RegistryKeys =>
         /\ exc \in {None, "Exit"}
         /\ ~Returned => ENABLED RunStep
         /\ Returned => result[1].approved = TRUE

\* C5 witness: a returned run under auto_yes with approval required
C5_Witness ==
  /\ Returned
  /\ require_manual_approval /\ auto_yes
  /\ result[1].approved = TRUE
  /\ stdin_read = <<>>
  /\ \E i \in 1..Len(log) : log[i][2] = "Waiting for manual approval..."

\* C6: in every returned RunResult the overall status is failed exactly when
\* some StepResult is failed, and success otherwise.
C6_OverallStatusDerivation ==
  Returned =>
    LET anyFailed == \E i \in 1..Len(result[1].steps) : result[1].steps[i].status = "failed"
    IN /\ result[1].status = "failed" <=> anyFailed
       /\ ~anyFailed => result[1].status = "success"

\* C6 witness: a failed run whose last step is the failed one
C6_Witness ==
  /\ Returned
  /\ result[1].status = "failed"
  /\ result[1].steps[Len(PIPELINE_STEPS)].status = "failed"

\* C7: every returned RunResult holds one StepResult per step in the fixed
\* order; while the run goes the results are those of a prefix of the steps,
\* each step's result is appended once, and an appended result and a returned
\* RunResult never change.
C7_OneResultPerStepInOrder ==
  /\ [](/\ Len(step_results) <= Len(PIPELINE_STEPS)
        /\ \A i \in 1..Len(step_results) : step_results[i].name = PIPELINE_STEPS[i]
        /\ Returned => Names(result[1].steps) = PIPELINE_STEPS)
  /\ [][/\ Len(step_results') \in {Len(step_results), Len(step_results) + 1}
        /\ \A i \in 1..Len(step_results) : step_results'[i] = step_results[i]
        /\ Returned => result' = result]_vars

\* C7 witness: a returned failed run with its four results in order
C7_Witness ==
  /\ Returned
  /\ fail_step = "build"
  /\ Names(result[1].steps) = <<"build", "test", "package", "deploy">>
  /\ result[1].steps[4].status = "skipped"

\* C8: for a registry artifact and an approval granted or not required,
\* run_pipeline raises nothing and can always take its next step until it
\* returns a complete RunResult, for every fail_step; a fail_step that names a
\* step shows as status failed of that step's result and of the RunResult.
C8_StepFailureIsData ==
  (Entered /\ artifact \in RegistryKeys /\ Granted) =>
    /\ exc \in {None, "Exit"}
    /\ ~Returned => ENABLED RunStep
    /\ Returned =>
         /\ Len(result[1].steps) = Len(PIPELINE_STEPS)
         /\ fail_step \in StepNames =>
              /\ result[1].status = "failed"
              /\ \E i \in 1..Len(result[1].steps) :
                   /\ result[1].steps[i].name = fail_step
                   /\ result[1].steps[i].status = "failed"

\* C8 witness: a direct call returned a failed run after a granted approval
C8_Witness ==
  /\ pc = "returned"
  /\ exc = None
  /\ require_manual_approval /\ ~auto_yes
  /\ stdin_read = << <<"O", "u", "i">> >>
  /\ fail_step = "package"
  /\ result[1].status = "failed"
  /\ result[1].steps[3].status = "failed"

\* C9: a step is started only when every earlier step has had its sleep and
\* its result recorded, in the fixed order; and in a returned RunResult
\* run.started_at <= steps[1].started_at, each step's started_at <= its
\* finished_at <= the next step's started_at, and the last finished_at <=
\* run.finished_at.
C9_SequentialTimestamps ==
  /\ LET started == SelectSeq(log, IsStepStarted)
         k == Len(started)
         done == Cardinality({i \in 1..Len(step_results) : step_results[i].status # "skipped"})
     IN /\ k \in {done, done + 1}
        /\ Len(sleeps) \in {done, done + 1}
        /\ Len(sleeps) <= k
        /\ \A i \in 1..k : started[i][3] = PIPELINE_STEPS[i]
  /\ Returned =>
       LET r == result[1]
           n == Len(r.steps)
       IN /\ n > 0
          /\ r.started_at <= r.steps[1].started_at
          /\ \A i \in 1..n : r.steps[i].started_at <= r.steps[i].finished_at
          /\ \A i \in 1..(n - 1) : r.steps[i].finished_at <= r.steps[i + 1].started_at
          /\ r.steps[n].finished_at <= r.finished_at

\* C9 witness: the clock moved while the first step worked
C9_Witness ==
  /\ Returned
  /\ result[1].steps[1].started_at < result[1].steps[1].finished_at
  /\ result[1].started_at < result[1].finished_at
  /\ Len(sleeps) = Len(PIPELINE_STEPS)

Structure(r) ==
  [run_id |-> r.run_id, artifact |-> r.artifact, approved |-> r.approved, status |-> r.status,
   steps |-> [i \in 1..Len(r.steps) |->
               [name |-> r.steps[i].name, status |-> r.steps[i].status,
                message |-> r.steps[i].message]]]

\* C11: two runs of run_pipeline with the same run_id, artifact, approval
\* arguments, approval decision and fail_step return RunResults that are
\* equal in everything but their timestamps, whatever the clock, the wording
\* of the approver's answer and simulate_seconds are.
C11_SameInputsSameStructure ==
  Len(result) = 2 => Structure(result[1]) = Structure(result[2])

\* C11 witness: two failed runs returned at different instants, the approver
\* having granted in different words
C11_Witness ==
  /\ Len(result) = 2
  /\ result[1].status = "failed"
  /\ result[1].finished_at < result[2].started_at
  /\ Len(stdin_read) = 2
  /\ stdin_read[1] # stdin_read[2]
  /\ Len(sleeps) >= 2
  /\ sleeps[1] # sleeps[Len(sleeps)]

\* C12: every skipped StepResult has started_at = finished_at, an instant not
\* earlier than the failed step's finished_at, and the message "Skipped due
\* to previous failure."; the failed result's started_at is the reading taken
\* when that step began (after the previous step's finish), its finished_at
\* the reading after that step's one sleep.
C12_SkippedSingleInstant ==
  \A i \in 1..Len(step_results) :
    LET r == step_results[i] IN
      /\ r.status = "skipped" =>
           /\ r.started_at = r.finished_at
           /\ r.finished_at <= clock
           /\ r.message = <<"Skipped due to previous failure.">>
           /\ \E f \in 1..(i - 1) :
                /\ step_results[f].status = "failed"
                /\ step_results[f].finished_at <= r.started_at
      /\ r.status = "failed" =>
           /\ r.started_at = step_start
           /\ r.started_at <= r.finished_at
           /\ i > 1 => step_results[i - 1].finished_at <= r.started_at
           /\ Len(sleeps) = i
           /\ r.message = <<"Simulated failure at step", r.name>>

\* C12 witness: the clock moved between the failure and the skipping
C12_Witness ==
  /\ Returned
  /\ fail_step = "test"
  /\ result[1].steps[2].status = "failed"
  /\ result[1].steps[2].finished_at < result[1].steps[3].started_at
  /\ result[1].steps[3].started_at = result[1].steps[3].finished_at
  /\ result[1].steps[4].status = "skipped"

\* the statuses a run with this fail_step has when simulate_seconds is zero
StatusesFor(fs) ==
  [i \in 1..Len(PIPELINE_STEPS) |->
     IF fs \notin StepNames THEN "success"
     ELSE IF \E j \in 1..(i - 1) : PIPELINE_STEPS[j] = fs THEN "skipped"
     ELSE IF PIPELINE_STEPS[i] = fs THEN "failed" ELSE "success"]

\* C13: no step is started or slept for after the failing step: the sleeps
\* and the started steps are as many as the results that are not skipped;
\* every sleep lasts simulate_seconds, or zero when that is negative; a
\* negative simulate_seconds raises nothing and the returned statuses are
\* those of the same run with zero.
C13_NoWorkAfterFailure ==
  /\ \A i \in 1..Len(sleeps) :
       /\ sleeps[i] >= 0
       /\ simulate_seconds >= 0 => sleeps[i] = simulate_seconds
       /\ simulate_seconds < 0 => sleeps[i] = 0
  /\ exc # "ValueError" \/ prompts > 0
  /\ overall_status = "failed" =>
       /\ pc \notin {"loop", "work", "outcome"}
       /\ Cardinality(StartedAt) = Index(PIPELINE_STEPS, fail_step) + 1
       /\ Len(sleeps) = Cardinality(StartedAt)
  /\ Returned =>
       LET done == {i \in 1..Len(result[1].steps) : result[1].steps[i].status # "skipped"}
       IN /\ Len(sleeps) = Cardinality(done)
          /\ Cardinality(StartedAt) = Cardinality(done)
          /\ Statuses(result[1].steps) = StatusesFor(fail_step)

\* C13 witness: a negative simulate_seconds, failure at the second step
C13_Witness ==
  /\ Returned
  /\ simulate_seconds < 0
  /\ fail_step = "test"
  /\ sleeps = <<0, 0>>
  /\ Statuses(result[1].steps) = <<"success", "failed", "skipped", "skipped">>

\* the words that grant, compared with the answer trimmed and lower-cased
YesWords == {<<"y">>, <<"y", "e", "s">>, <<"o">>, <<"o", "u", "i">>}
SaysYes(ans) == ToLower(Strip(ans)) \in YesWords
\* positions of run_pipeline after the gate has let the run through
PastGate == {"steps", "loop", "work", "outcome", "skip", "returned", "cli_json", "cli_exit"}

\* C14: with approval required and not automatic, input() returns at most one
\* answer per run, only for a registry artifact and after the wait was
\* logged, and before any step starts; the run goes on exactly when the
\* answer, trimmed and lower-cased, is y, yes, o or oui, and raises
\* ApprovalRejectedError for every other answer, the empty one included.
C14_ApproverConsultedOnce ==
  (Entered /\ require_manual_approval /\ ~auto_yes) =>
    /\ Len(stdin_read) <= 1
    /\ stdin_read # <<>> =>
         /\ artifact \in RegistryKeys
         /\ \E i \in 1..Len(log) : log[i][2] = "Waiting for manual approval..."
         /\ stdin_read[1] \in GrantingAnswers => SaysYes(stdin_read[1])
         /\ stdin_read[1] \in DenyingAnswers => ~SaysYes(stdin_read[1])
         /\ approved = SaysYes(stdin_read[1])
         /\ pc # "gate_check" => (exc = "ApprovalRejectedError" <=> ~SaysYes(stdin_read[1]))
    /\ (pc = "gate_check" \/ exc = "ApprovalRejectedError") => Len(stdin_read) = 1
    /\ (pc \in PastGate \/ ~NoStepStarted \/ sleeps # <<>> \/ Returned) =>
         /\ Len(stdin_read) = 1
         /\ SaysYes(stdin_read[1])
    /\ \A i \in StartedAt :
         \E j \in 1..(i - 1) : log[j][2] = "Waiting for manual approval..."

\* C14 witness: the CLI run ended with success after the answer " YES "
C14_Witness ==
  /\ caller = "cli"
  /\ pc = "exited"
  /\ exit_code = 0
  /\ require_manual_approval /\ ~auto_yes
  /\ stdin_read = << <<" ", "Y", "E", "S", " ">> >>
  /\ Returned

\* C15: cli.run, once its inputs are validated, always ends by typer.Exit:
\* with code 0 exactly when run_pipeline returned a RunResult of status
\* success (the Exit raised inside the try passes the handlers unchanged), and
\* with code 1 for a failed result, for ApprovalRejectedError (logged as
\* rejected), and for every other exception, pipeline error or not.
C15_ExitCodes ==
  caller = "cli" =>
    /\ run_id # None => pc # "raised"
    /\ \A e \in PipelineErrors \cup {"EOFError", "ValueError", "OSError"} :
         except_clause(e) # "reraise"
    /\ pc = "cli_except" => (exc = "Exit" <=> Returned)
    /\ pc = "exited" =>
         /\ exit_code \in {0, 1}
         /\ exit_code = 0 <=> (Returned /\ result[1].status = "success")
         /\ (Returned /\ result[1].status = "failed") => exit_code = 1
         /\ Returned <=> exc = "Exit"
         /\ exc = "ApprovalRejectedError" =>
              /\ exit_code = 1
              /\ log[Len(log)] = <<"WARNING", "Run rejected by user.", None>>
         /\ exc \notin {"Exit", "ApprovalRejectedError"} =>
              /\ exit_code = 1
              /\ log[Len(log)][1] = "ERROR"

\* C15 witness: the exit with code 0 after a run without approval
C15_Witness ==
  /\ caller = "cli"
  /\ pc = "exited"
  /\ exit_code = 0
  /\ exc = "Exit"
  /\ ~require_manual_approval
  /\ fail_step = None
  /\ result[1].status = "success"

\* C15 second case reached: an unexpected exception ends with code 1
C15_UnexpectedReached ==
  /\ caller = "cli"
  /\ pc = "exited"
  /\ exc = "EOFError"
  /\ exit_code = 1

\* C16: every RunResult that run_pipeline returns has approved = true and a
\* status of success or failed, never rejected; approved is true also when
\* no approval was required and no answer was ever read.
C16_ReturnedIsApproved ==
  \A k \in 1..Len(result) :
    /\ result[k].approved = TRUE
    /\ result[k].status \in {"success", "failed"}
    /\ result[k].status # "rejected"
    /\ exc # "ApprovalRejectedError"

\* C16 witness: a returned run for which nobody was asked
C16_Witness ==
  /\ Returned
  /\ ~require_manual_approval
  /\ ~auto_yes
  /\ stdin_read = <<>>
  /\ result[1].approved = TRUE
  /\ \A i \in 1..Len(log) : log[i][2] # "Waiting for manual approval..."

\* C17: run_pipeline itself writes no file.  cli.run has written
\* <log_dir>/<run_id>.json exactly when json_out is true and run_pipeline
\* returned a RunResult, and it has done so before typer.Exit is raised;
\* after a rejected approval or any other exception no JSON file exists.
C17_JsonWrittenIffReturned ==
  /\ caller = "api" => files = {}
  /\ caller = "cli" =>
       /\ \A f \in files :
            /\ f[1] = run_id
            /\ f[2] \in {"log", "json"}
            /\ f[2] = "json" => (json_out /\ Returned /\ f[1] = result[1].run_id)
       /\ (pc = "cli_exit" \/ exc = "Exit") => (<<run_id, "json">> \in files <=> json_out)
       /\ pc = "exited" => (<<run_id, "json">> \in files <=> (json_out /\ Returned))
       /\ exc \notin {None, "Exit"} => \A f \in files : f[2] # "json"

\* C17 witness: a failed run whose result was written, then exit code 1
C17_Witness ==
  /\ caller = "cli"
  /\ pc = "exited"
  /\ exit_code = 1
  /\ json_out
  /\ Returned
  /\ result[1].status = "failed"
  /\ files = {<<run_id, "log">>, <<run_id, "json">>}

\* C18: after any calls of setup_logging, with any run ids in any order, the
\* root logger holds exactly two handlers, a console handler and a file
\* handler, both of the latest call: no handler of an earlier call or of the
\* host is left, and the file handler writes to <log_dir>/<latest run_id>.log,
\* which exists.
C18_TwoHandlersOfLatestCall ==
  run_id # None =>
    /\ Len(handlers) = 2
    /\ handlers[1].kind = "console"
    /\ handlers[2].kind = "file"
    /\ \A i \in 1..Len(handlers) : handlers[i].run_id = run_id
    /\ handlers[2].path = <<run_id, "log">>
    /\ handlers[2].path \in files
    /\ \A f \in files : f[2] = "log"

\* C18 witness: calls with four different run ids, the latest of them 2222...
C18_Witness ==
  /\ pc = "idle"
  /\ Cardinality(files) = 4
  /\ run_id = "222222222222"
  /\ Len(handlers) = 2
  /\ handlers[2].path = <<"222222222222", "log">>

====
